---- MODULE Spec2Model ----
(***************************************************************************)
(* Model of molasses: the left-balanced binary tree index algebra          *)
(* (src/tree_math.rs) and the Handshake envelope (src/handshake.rs).       *)
(*                                                                         *)
(* Machine integers are W-bit unsigned (usize).  A panic (failed assert!, *)
(* unwrap of None, checked arithmetic overflow) is the value Panic; every  *)
(* arithmetic helper propagates it, as unwinding does.  Arithmetic and     *)
(* shift overflow panic when the build has overflow checks (debug) and     *)
(* wrap otherwise (release); the build is chosen in Init.                  *)
(***************************************************************************)
EXTENDS Integers, Sequences, FiniteSets, TLC

\* Width of usize in bits (64 on the real target, scaled down).
W == 5

VARIABLES
    in_num_leaves,    \* the num_leaves argument handed to the functions
    in_idx,           \* the idx / start_idx / num_nodes / x argument
    overflow_checks,  \* TRUE: debug build (overflow panics), FALSE: release (wraps)
    call,             \* name of the function applied last, "none" at start
    ret,              \* its scalar result (Panic if it panicked, 0 if it returns a Vec)
    vec,              \* its Vec result (PanicVec if it panicked, <<>> if scalar)
    state,            \* handshake.rs: the sender's GroupState
    op,               \* handshake.rs: the GroupOperation handed to from_group_op
    handshake,        \* handshake.rs: the Handshake built last, NoHandshake at start
    pc,               \* stepped loops: where the running function stands
    parent_p,         \* stepped loops: node_parent's local p
    right_r,          \* stepped loops: node_right_child's local r
    path_p,           \* stepped loops: the local p of node_direct_path / node_copath
    path_vec,         \* stepped loops: the Vec node_direct_path / node_copath is filling
    receiver,         \* the GroupState of the member the Handshake is delivered to
    outcomes          \* what each delivery to the receiver ended with, in order

\* the locals of the stepped loops, and the receiving side of a Handshake
loop_vars == <<pc, parent_p, right_r, path_p, path_vec>>
receiver_vars == <<receiver, outcomes>>

vars == <<in_num_leaves, in_idx, overflow_checks, call, ret, vec, state, op, handshake,
          loop_vars, receiver_vars>>

----------------------------------------------------------------------------
\* Machine arithmetic

\* std::usize::MAX
MAX_UINT == 2^W - 1

\* The value of a call that panicked (scalar and Vec results).
Panic == -1
PanicVec == <<Panic>>

\* Option::None of log2
None == -2

Bit(x, k) == (x \div (2^k)) % 2

RECURSIVE FromBits(_, _)
FromBits(b, k) == IF k = W THEN 0 ELSE b[k] * (2^k) + FromBits(b, k + 1)

\* Overflow of +, -, * : panic with overflow checks, wrap without.
Wrap(v) == IF v >= 0 /\ v <= MAX_UINT THEN v
           ELSE IF overflow_checks THEN Panic ELSE v % (2^W)

Add(a, b) == IF a = Panic \/ b = Panic THEN Panic ELSE Wrap(a + b)
Sub(a, b) == IF a = Panic \/ b = Panic THEN Panic ELSE Wrap(a - b)
Mul(a, b) == IF a = Panic \/ b = Panic THEN Panic ELSE Wrap(a * b)

\* x << s : a shift amount >= W panics with overflow checks and is masked
\* without; bits shifted past the top are dropped silently in both builds.
Shl(x, s) == IF x = Panic \/ s = Panic THEN Panic
             ELSE IF s >= W
                  THEN IF overflow_checks THEN Panic ELSE (x * (2^(s % W))) % (2^W)
                  ELSE (x * (2^s)) % (2^W)

Shr(x, s) == IF x = Panic \/ s = Panic THEN Panic
             ELSE IF s >= W
                  THEN IF overflow_checks THEN Panic ELSE x \div (2^(s % W))
                  ELSE x \div (2^s)

BitAnd(a, b) == IF a = Panic \/ b = Panic THEN Panic
                ELSE FromBits([k \in 0..(W-1) |-> Bit(a, k) * Bit(b, k)], 0)
BitOr(a, b)  == IF a = Panic \/ b = Panic THEN Panic
                ELSE FromBits([k \in 0..(W-1) |-> IF Bit(a, k) + Bit(b, k) > 0 THEN 1 ELSE 0], 0)
BitXor(a, b) == IF a = Panic \/ b = Panic THEN Panic
                ELSE FromBits([k \in 0..(W-1) |-> (Bit(a, k) + Bit(b, k)) % 2], 0)
BitNot(a)    == IF a = Panic THEN Panic ELSE MAX_UINT - a

trailing_zeros(x) ==
    IF x = 0 THEN W
    ELSE CHOOSE k \in 0..(W-1) : Bit(x, k) = 1 /\ \A j \in 0..(k-1) : Bit(x, j) = 0

leading_zeros(x) ==
    IF x = 0 THEN W
    ELSE LET top == CHOOSE k \in 0..(W-1) :
                        Bit(x, k) = 1 /\ \A j \in (k+1)..(W-1) : Bit(x, j) = 0
         IN  W - 1 - top

unwrap(o) == IF o = None THEN Panic ELSE o

----------------------------------------------------------------------------
\* tree_math.rs

MAX_LEAVES == Add(Shr(MAX_UINT, 1), 1)

log2(x) ==
    LET bitlen == leading_zeros(0)
        d      == bitlen - leading_zeros(x)
    IN  IF d < 1 THEN None ELSE d - 1

node_level(idx) == trailing_zeros(BitNot(idx))

\* num_nodes_in_tree written as 2 * num_leaves - 1
num_nodes_in_tree_double_first(num_leaves) ==
    IF ~(num_leaves > 0 /\ num_leaves <= MAX_LEAVES) THEN Panic
    ELSE Sub(Mul(2, num_leaves), 1)

num_nodes_in_tree(num_leaves) ==
    IF ~(num_leaves > 0 /\ num_leaves <= MAX_LEAVES) THEN Panic
    ELSE Add(Mul(2, Sub(num_leaves, 1)), 1)

num_leaves_in_tree(num_nodes) ==
    IF ~(num_nodes % 2 = 1) THEN Panic
    ELSE Add(Shr(Sub(num_nodes, 1), 1), 1)

root_idx(num_leaves) ==
    IF ~(num_leaves > 0 /\ num_leaves <= MAX_LEAVES) THEN Panic
    ELSE LET n == num_nodes_in_tree(num_leaves)
         IN  IF n = Panic THEN Panic
             ELSE Sub(Shl(1, unwrap(log2(n))), 1)

node_left_child(idx) ==
    LET lvl == node_level(idx)
    IN  IF lvl = 0 THEN idx
        ELSE BitXor(idx, Shl(1, Sub(lvl, 1)))

\* the move-left loop of node_right_child with > for >=
RECURSIVE right_child_loop_gt(_, _)
right_child_loop_gt(r, idx_threshold) ==
    IF r = Panic \/ idx_threshold = Panic THEN Panic
    ELSE IF r > idx_threshold THEN right_child_loop_gt(node_left_child(r), idx_threshold)
    ELSE r

RECURSIVE right_child_loop(_, _)
right_child_loop(r, idx_threshold) ==
    IF r = Panic \/ idx_threshold = Panic THEN Panic
    ELSE IF r >= idx_threshold THEN right_child_loop(node_left_child(r), idx_threshold)
    ELSE r

\* node_right_child returning a leaf before it checks its arguments
node_right_child_leaf_first(idx, num_leaves) ==
    IF node_level(idx) = 0 THEN idx
    ELSE IF ~(num_leaves > 0 /\ num_leaves <= MAX_LEAVES) THEN Panic
    ELSE IF num_nodes_in_tree(num_leaves) = Panic
            \/ ~(idx < num_nodes_in_tree(num_leaves)) THEN Panic
    ELSE right_child_loop(BitXor(idx, Shl(3, Sub(node_level(idx), 1))),
                          num_nodes_in_tree(num_leaves))

\* node_right_child conjecturing idx ^ (0x03 << lvl)
node_right_child_wide_shift(idx, num_leaves) ==
    IF ~(num_leaves > 0 /\ num_leaves <= MAX_LEAVES) THEN Panic
    ELSE IF num_nodes_in_tree(num_leaves) = Panic
            \/ ~(idx < num_nodes_in_tree(num_leaves)) THEN Panic
    ELSE LET lvl == node_level(idx)
         IN  IF lvl = 0 THEN idx
             ELSE right_child_loop(BitXor(idx, Shl(3, lvl)),
                                   num_nodes_in_tree(num_leaves))

node_right_child(idx, num_leaves) ==
    IF ~(num_leaves > 0 /\ num_leaves <= MAX_LEAVES) THEN Panic
    ELSE IF num_nodes_in_tree(num_leaves) = Panic
            \/ ~(idx < num_nodes_in_tree(num_leaves)) THEN Panic
    ELSE LET lvl == node_level(idx)
         IN  IF lvl = 0 THEN idx
             ELSE right_child_loop(BitXor(idx, Shl(3, Sub(lvl, 1))),
                                   num_nodes_in_tree(num_leaves))

parent_step(i) ==
    LET lvl          == node_level(i)
        bit_to_clear == BitAnd(i, Shl(1, Add(lvl, 1)))
        bit_to_set   == Shl(1, lvl)
    IN  BitXor(BitOr(i, bit_to_set), bit_to_clear)

RECURSIVE parent_loop(_, _)
parent_loop(p, idx_threshold) ==
    IF p = Panic \/ idx_threshold = Panic THEN Panic
    ELSE IF p >= idx_threshold THEN parent_loop(parent_step(p), idx_threshold)
    ELSE p

\* node_parent taking one parent_step, without the loop back into the tree
node_parent_one_step(idx, num_leaves) ==
    IF ~(num_leaves > 0 /\ num_leaves <= MAX_LEAVES) THEN Panic
    ELSE IF num_nodes_in_tree(num_leaves) = Panic
            \/ ~(idx < num_nodes_in_tree(num_leaves)) THEN Panic
    ELSE IF root_idx(num_leaves) = Panic THEN Panic
    ELSE IF idx = root_idx(num_leaves) THEN idx
    ELSE parent_step(idx)

node_parent(idx, num_leaves) ==
    IF ~(num_leaves > 0 /\ num_leaves <= MAX_LEAVES) THEN Panic
    ELSE IF num_nodes_in_tree(num_leaves) = Panic
            \/ ~(idx < num_nodes_in_tree(num_leaves)) THEN Panic
    ELSE IF root_idx(num_leaves) = Panic THEN Panic
    ELSE IF idx = root_idx(num_leaves) THEN idx
    ELSE parent_loop(parent_step(idx), num_nodes_in_tree(num_leaves))

\* node_sibling as the full-tree bit flip, without parent and child lookups
node_sibling_full_tree(idx, num_leaves) ==
    IF ~(num_leaves > 0 /\ num_leaves <= MAX_LEAVES) THEN Panic
    ELSE IF num_nodes_in_tree(num_leaves) = Panic
            \/ ~(idx < num_nodes_in_tree(num_leaves)) THEN Panic
    ELSE BitXor(idx, Shl(2, node_level(idx)))

node_sibling(idx, num_leaves) ==
    IF ~(num_leaves > 0 /\ num_leaves <= MAX_LEAVES) THEN Panic
    ELSE IF num_nodes_in_tree(num_leaves) = Panic
            \/ ~(idx < num_nodes_in_tree(num_leaves)) THEN Panic
    ELSE LET parent == node_parent(idx, num_leaves)
         IN  IF parent = Panic THEN Panic
             ELSE IF idx < parent THEN node_right_child(parent, num_leaves)
             ELSE IF idx > parent THEN node_left_child(parent)
             ELSE parent

\* the loop of node_direct_path pushing before it tests for the root
RECURSIVE direct_path_loop_push_first(_, _, _, _)
direct_path_loop_push_first(p, root, num_leaves, path) ==
    IF p = Panic THEN PanicVec
    ELSE IF p # root
         THEN direct_path_loop_push_first(node_parent(p, num_leaves), root, num_leaves,
                                          Append(path, p))
    ELSE Append(path, p)

RECURSIVE direct_path_loop(_, _, _, _)
direct_path_loop(p, root, num_leaves, path) ==
    IF p = Panic THEN PanicVec
    ELSE IF p # root
         THEN direct_path_loop(node_parent(p, num_leaves), root, num_leaves, Append(path, p))
    ELSE path

node_direct_path(start_idx, num_leaves) ==
    IF ~(num_leaves > 0 /\ num_leaves <= MAX_LEAVES) THEN PanicVec
    ELSE IF num_nodes_in_tree(num_leaves) = Panic
            \/ ~(start_idx < num_nodes_in_tree(num_leaves)) THEN PanicVec
    ELSE IF root_idx(num_leaves) = Panic THEN PanicVec
    ELSE direct_path_loop(node_parent(start_idx, num_leaves), root_idx(num_leaves),
                          num_leaves, <<>>)

\* the loop of node_copath stopping at the child of the root
RECURSIVE copath_loop_stop_early(_, _, _, _)
copath_loop_stop_early(p, root, num_leaves, copath) ==
    IF p = Panic \/ node_parent(p, num_leaves) = Panic THEN PanicVec
    ELSE IF node_parent(p, num_leaves) # root
         THEN LET sibling == node_sibling(p, num_leaves)
              IN  IF sibling = Panic THEN PanicVec
                  ELSE copath_loop_stop_early(node_parent(p, num_leaves), root, num_leaves,
                                              Append(copath, sibling))
    ELSE copath

RECURSIVE copath_loop(_, _, _, _)
copath_loop(p, root, num_leaves, copath) ==
    IF p = Panic THEN PanicVec
    ELSE IF p # root
         THEN LET sibling == node_sibling(p, num_leaves)
              IN  IF sibling = Panic THEN PanicVec
                  ELSE copath_loop(node_parent(p, num_leaves), root, num_leaves,
                                   Append(copath, sibling))
    ELSE copath

node_copath(start_idx, num_leaves) ==
    IF ~(num_leaves > 0 /\ num_leaves <= MAX_LEAVES) THEN PanicVec
    ELSE IF num_nodes_in_tree(num_leaves) = Panic
            \/ ~(start_idx < num_nodes_in_tree(num_leaves)) THEN PanicVec
    ELSE IF root_idx(num_leaves) = Panic THEN PanicVec
    ELSE copath_loop(start_idx, root_idx(num_leaves), num_leaves, <<>>)

RECURSIVE sizes_present_loop(_, _, _, _)
sizes_present_loop(j, last, num_leaves, sizes_present) ==
    IF j > last THEN sizes_present
    ELSE LET bitmask == Shl(1, j)
         IN  sizes_present_loop(j + 1, last, num_leaves,
                 IF BitAnd(num_leaves, bitmask) # 0
                 THEN Append(sizes_present, bitmask) ELSE sizes_present)

\* The second loop of tree_frontier: sizes_present is consumed from its end
\* (into_iter().rev()), k is the position of the next size to take.
RECURSIVE frontier_loop(_, _, _, _)
frontier_loop(sizes_present, k, base, frontier) ==
    IF k = 0 THEN frontier
    ELSE LET num_leaves_in_subtree == sizes_present[k]
             pushed                == Add(root_idx(num_leaves_in_subtree), base)
             num_nodes_in_subtree  == num_nodes_in_tree(num_leaves_in_subtree)
             next_base             == Add(base, Add(num_nodes_in_subtree, 1))
         IN  IF pushed = Panic \/ next_base = Panic THEN PanicVec
             ELSE frontier_loop(sizes_present, k - 1, next_base, Append(frontier, pushed))

tree_frontier(num_leaves) ==
    IF ~(num_leaves > 0 /\ num_leaves <= MAX_LEAVES) THEN PanicVec
    ELSE LET sizes_present ==
                 sizes_present_loop(0, unwrap(log2(num_leaves)), num_leaves, <<>>)
         IN  frontier_loop(sizes_present, Len(sizes_present), 0, <<>>)

tree_leaves(num_leaves) ==
    IF ~(num_leaves > 0 /\ num_leaves <= MAX_LEAVES) THEN PanicVec
    ELSE [i \in 1..num_leaves |-> Mul(2, i - 1)]

----------------------------------------------------------------------------
\* handshake.rs

\* Largest epoch, number of distinct keys, roster positions and transcript
\* hashes the sender's GroupState is drawn from.
MaxEpoch == 2
MaxKey == 2
MaxRoster == 2

\* transcript_hash values: short byte strings
Hashes == {<<0>>, <<1>>, <<0, 1>>}

\* The variants of GroupOperation (payloads left abstract)
GroupOperation == {"Init", "Add", "Update", "Remove"}

GroupState == [epoch : 0..MaxEpoch,
               transcript_hash : Hashes,
               identity_key : 1..MaxKey,
               confirmation_key : 1..MaxKey,
               my_position_in_roster : 0..(MaxRoster - 1)]

\* cs.sig_impl.sign: a signature is determined by the key and the message
sign(key, msg) == [signer |-> key, signed |-> msg]

\* cs.sig_impl.signature_to_bytes: an injective byte encoding of a signature
signature_to_bytes(sig) == <<sig.signer>> \o sig.signed

\* ring::hmac::sign: a tag is determined by the key and the data
hmac_sign(key, data) == [mac_key |-> key, mac_data |-> data]

\* from_group_op stamping the epoch after the operation
from_group_op_next_epoch(st, operation) ==
    LET signature         == sign(st.identity_key, st.transcript_hash)
        confirmation_data == st.transcript_hash \o signature_to_bytes(signature)
        confirmation      == hmac_sign(st.confirmation_key, confirmation_data)
    IN  [prior_epoch  |-> st.epoch + 1,
         operation    |-> operation,
         signer_index |-> st.my_position_in_roster,
         signature    |-> signature,
         confirmation |-> confirmation]

from_group_op(st, operation) ==
    LET signature         == sign(st.identity_key, st.transcript_hash)
        confirmation_data == st.transcript_hash \o signature_to_bytes(signature)
        confirmation      == hmac_sign(st.confirmation_key, confirmation_data)
    IN  [prior_epoch  |-> st.epoch,
         operation    |-> operation,
         signer_index |-> st.my_position_in_roster,
         signature    |-> signature,
         confirmation |-> confirmation]

----------------------------------------------------------------------------
\* The receiving side of a Handshake (group state validation, not part of
\* handshake.rs): the validation order of the Handshake envelope.

\* A roster maps each position to the identity key of the credential there,
\* 0 for a hole left by a removed member.
Rosters == [0..(MaxRoster - 1) -> 0..MaxKey]

ReceiverState == [epoch : 0..MaxEpoch,
                  transcript_hash : Hashes,
                  confirmation_key : 1..MaxKey,
                  roster : Rosters]

IdleReceiver == [epoch |-> 0, transcript_hash |-> <<0>>, confirmation_key |-> 1,
                 roster |-> [i \in 0..(MaxRoster - 1) |-> 1]]

\* signature verification: sig is what sign yields for this key and message
verify(key, msg, sig) == sig = sign(key, msg)

\* the 1-byte wire tag of a GroupOperation
OperationTag(operation) ==
    CASE operation = "Init" -> 0
      [] operation = "Add" -> 1
      [] operation = "Update" -> 2
      [] operation = "Remove" -> 3

\* the first four fields of a Handshake, as hashed into the transcript
handshake_without_confirmation(hs) ==
    <<hs.prior_epoch, OperationTag(hs.operation), hs.signer_index>>
        \o signature_to_bytes(hs.signature)

\* transcript_hash <- H(transcript_hash || handshake_without_confirmation)
extend_transcript_hash(transcript_hash, hs) ==
    transcript_hash \o handshake_without_confirmation(hs)

\* the confirmation key of the next epoch: a key other than the current one
next_confirmation_key(key) == (key % MaxKey) + 1

\* process_handshake without the comparison of the epochs
process_handshake_no_epoch_check(rcv, hs, path_ok) ==
    IF hs.signer_index \notin DOMAIN rcv.roster \/ rcv.roster[hs.signer_index] = 0
    THEN [outcome |-> "ProtocolMismatch", state |-> rcv]
    ELSE IF ~verify(rcv.roster[hs.signer_index], rcv.transcript_hash, hs.signature)
    THEN [outcome |-> "CryptoFailure", state |-> rcv]
    ELSE IF hs.confirmation #
                hmac_sign(rcv.confirmation_key,
                          rcv.transcript_hash \o signature_to_bytes(hs.signature))
    THEN [outcome |-> "CryptoFailure", state |-> rcv]
    ELSE IF ~path_ok
    THEN [outcome |-> "ProtocolMismatch", state |-> rcv]
    ELSE [outcome |-> "Accepted",
          state |-> [rcv EXCEPT
                        !.confirmation_key = next_confirmation_key(rcv.confirmation_key),
                        !.transcript_hash = extend_transcript_hash(rcv.transcript_hash, hs),
                        !.epoch = rcv.epoch + 1]]

\* Validation of a received Handshake against the receiver's state, in the
\* order of the envelope's rules; path_ok is whether applying the operation
\* passes its DirectPath consistency checks.  Yields the outcome and the
\* receiver's state after the call.
process_handshake(rcv, hs, path_ok) ==
    IF rcv.epoch # hs.prior_epoch
    THEN [outcome |-> "ProtocolMismatch", state |-> rcv]
    ELSE IF hs.signer_index \notin DOMAIN rcv.roster \/ rcv.roster[hs.signer_index] = 0
    THEN [outcome |-> "ProtocolMismatch", state |-> rcv]
    ELSE IF ~verify(rcv.roster[hs.signer_index], rcv.transcript_hash, hs.signature)
    THEN [outcome |-> "CryptoFailure", state |-> rcv]
    ELSE IF hs.confirmation #
                hmac_sign(rcv.confirmation_key,
                          rcv.transcript_hash \o signature_to_bytes(hs.signature))
    THEN [outcome |-> "CryptoFailure", state |-> rcv]
    ELSE IF ~path_ok
    THEN [outcome |-> "ProtocolMismatch", state |-> rcv]
    ELSE [outcome |-> "Accepted",
          state |-> [rcv EXCEPT
                        !.confirmation_key = next_confirmation_key(rcv.confirmation_key),
                        !.transcript_hash = extend_transcript_hash(rcv.transcript_hash, hs),
                        !.epoch = rcv.epoch + 1]]

----------------------------------------------------------------------------
\* State machine of the tree math: a run is one call of one function, as in
\* the tests: the arguments are drawn in Init, every action is the call of
\* one function on them and records what it returned.

IdleState == [epoch |-> 0, transcript_hash |-> <<0>>, identity_key |-> 1,
              confirmation_key |-> 1, my_position_in_roster |-> 0]

\* no stepped loop is running
LoopsIdle ==
    /\ pc = "idle"
    /\ parent_p = 0
    /\ right_r = 0
    /\ path_p = 0
    /\ path_vec = <<>>

\* nothing is delivered to a receiver
ReceiverIdle ==
    /\ receiver = IdleReceiver
    /\ outcomes = <<>>

Init ==
    /\ in_num_leaves \in 0..MAX_UINT
    /\ in_idx \in 0..MAX_UINT
    /\ overflow_checks \in BOOLEAN
    /\ call = "none"
    /\ ret = 0
    /\ vec = <<>>
    /\ state = IdleState
    /\ op = "Init"
    /\ handshake = <<>>
    /\ LoopsIdle
    /\ ReceiverIdle

CallLog2 ==
    /\ call = "none"
    /\ call' = "log2"
    /\ ret' = log2(in_idx)
    /\ vec' = <<>>
    /\ UNCHANGED <<in_num_leaves, in_idx, overflow_checks, state, op, handshake>>
    /\ UNCHANGED <<loop_vars, receiver_vars>>

CallNodeLevel ==
    /\ call = "none"
    /\ call' = "node_level"
    /\ ret' = node_level(in_idx)
    /\ vec' = <<>>
    /\ UNCHANGED <<in_num_leaves, in_idx, overflow_checks, state, op, handshake>>
    /\ UNCHANGED <<loop_vars, receiver_vars>>

CallNumNodesInTree ==
    /\ call = "none"
    /\ call' = "num_nodes_in_tree"
    /\ ret' = num_nodes_in_tree(in_num_leaves)
    /\ vec' = <<>>
    /\ UNCHANGED <<in_num_leaves, in_idx, overflow_checks, state, op, handshake>>
    /\ UNCHANGED <<loop_vars, receiver_vars>>

CallNumLeavesInTree ==
    /\ call = "none"
    /\ call' = "num_leaves_in_tree"
    /\ ret' = num_leaves_in_tree(in_idx)
    /\ vec' = <<>>
    /\ UNCHANGED <<in_num_leaves, in_idx, overflow_checks, state, op, handshake>>
    /\ UNCHANGED <<loop_vars, receiver_vars>>

CallRootIdx ==
    /\ call = "none"
    /\ call' = "root_idx"
    /\ ret' = root_idx(in_num_leaves)
    /\ vec' = <<>>
    /\ UNCHANGED <<in_num_leaves, in_idx, overflow_checks, state, op, handshake>>
    /\ UNCHANGED <<loop_vars, receiver_vars>>

CallNodeLeftChild ==
    /\ call = "none"
    /\ call' = "node_left_child"
    /\ ret' = node_left_child(in_idx)
    /\ vec' = <<>>
    /\ UNCHANGED <<in_num_leaves, in_idx, overflow_checks, state, op, handshake>>
    /\ UNCHANGED <<loop_vars, receiver_vars>>

CallNodeRightChild ==
    /\ call = "none"
    /\ call' = "node_right_child"
    /\ ret' = node_right_child(in_idx, in_num_leaves)
    /\ vec' = <<>>
    /\ UNCHANGED <<in_num_leaves, in_idx, overflow_checks, state, op, handshake>>
    /\ UNCHANGED <<loop_vars, receiver_vars>>

CallNodeParent ==
    /\ call = "none"
    /\ call' = "node_parent"
    /\ ret' = node_parent(in_idx, in_num_leaves)
    /\ vec' = <<>>
    /\ UNCHANGED <<in_num_leaves, in_idx, overflow_checks, state, op, handshake>>
    /\ UNCHANGED <<loop_vars, receiver_vars>>

CallNodeSibling ==
    /\ call = "none"
    /\ call' = "node_sibling"
    /\ ret' = node_sibling(in_idx, in_num_leaves)
    /\ vec' = <<>>
    /\ UNCHANGED <<in_num_leaves, in_idx, overflow_checks, state, op, handshake>>
    /\ UNCHANGED <<loop_vars, receiver_vars>>

CallNodeDirectPath ==
    /\ call = "none"
    /\ call' = "node_direct_path"
    /\ vec' = node_direct_path(in_idx, in_num_leaves)
    /\ ret' = IF vec' = PanicVec THEN Panic ELSE 0
    /\ UNCHANGED <<in_num_leaves, in_idx, overflow_checks, state, op, handshake>>
    /\ UNCHANGED <<loop_vars, receiver_vars>>

CallNodeCopath ==
    /\ call = "none"
    /\ call' = "node_copath"
    /\ vec' = node_copath(in_idx, in_num_leaves)
    /\ ret' = IF vec' = PanicVec THEN Panic ELSE 0
    /\ UNCHANGED <<in_num_leaves, in_idx, overflow_checks, state, op, handshake>>
    /\ UNCHANGED <<loop_vars, receiver_vars>>

CallTreeFrontier ==
    /\ call = "none"
    /\ call' = "tree_frontier"
    /\ vec' = tree_frontier(in_num_leaves)
    /\ ret' = IF vec' = PanicVec THEN Panic ELSE 0
    /\ UNCHANGED <<in_num_leaves, in_idx, overflow_checks, state, op, handshake>>
    /\ UNCHANGED <<loop_vars, receiver_vars>>

CallTreeLeaves ==
    /\ call = "none"
    /\ call' = "tree_leaves"
    /\ vec' = tree_leaves(in_num_leaves)
    /\ ret' = IF vec' = PanicVec THEN Panic ELSE 0
    /\ UNCHANGED <<in_num_leaves, in_idx, overflow_checks, state, op, handshake>>
    /\ UNCHANGED <<loop_vars, receiver_vars>>

Next ==
    \/ CallLog2
    \/ CallNodeLevel
    \/ CallNumNodesInTree
    \/ CallNumLeavesInTree
    \/ CallRootIdx
    \/ CallNodeLeftChild
    \/ CallNodeRightChild
    \/ CallNodeParent
    \/ CallNodeSibling
    \/ CallNodeDirectPath
    \/ CallNodeCopath
    \/ CallTreeFrontier
    \/ CallTreeLeaves

Spec == Init /\ [][Next]_vars

----------------------------------------------------------------------------
\* State machine of the handshake: the sender's GroupState and the operation
\* are drawn in InitHandshake, the action builds the Handshake.

InitHandshake ==
    /\ in_num_leaves = 1
    /\ in_idx = 0
    /\ overflow_checks \in BOOLEAN
    /\ call = "none"
    /\ ret = 0
    /\ vec = <<>>
    /\ state \in GroupState
    /\ op \in GroupOperation
    /\ handshake = <<>>
    /\ LoopsIdle
    /\ ReceiverIdle

\* state is borrowed immutably (&GroupState): the call cannot assign to it.
CallFromGroupOp ==
    /\ call = "none"
    /\ call' = "from_group_op"
    /\ handshake' = <<from_group_op(state, op)>>
    /\ UNCHANGED <<in_num_leaves, in_idx, overflow_checks, ret, vec, state, op>>
    /\ UNCHANGED <<loop_vars, receiver_vars>>

NextHandshake == CallFromGroupOp

SpecHandshake == InitHandshake /\ [][NextHandshake]_vars

----------------------------------------------------------------------------
\* State machine of a delivery: the sender builds one Handshake, which is
\* then delivered to a receiver, possibly more than once (replay).

\* Most deliveries of the Handshake in one run
MaxDeliveries == 2

\* The receivers a Handshake of this sender is delivered to: any epoch,
\* transcript hash and confirmation key, and any credential or a hole at
\* the sender's roster position.  A delivery reads no other roster slot;
\* those hold key 1.
ReceiverOf(sender) ==
    {[epoch |-> e, transcript_hash |-> h, confirmation_key |-> c,
      roster |-> [i \in 0..(MaxRoster - 1) |->
                     IF i = sender.my_position_in_roster THEN k ELSE 1]] :
        e \in 0..MaxEpoch, h \in Hashes, c \in 1..MaxKey, k \in 0..MaxKey}

InitReceiver ==
    /\ in_num_leaves = 1
    /\ in_idx = 0
    /\ overflow_checks = FALSE
    /\ call = "none"
    /\ ret = 0
    /\ vec = <<>>
    /\ state \in GroupState
    /\ op \in GroupOperation
    /\ handshake = <<>>
    /\ LoopsIdle
    /\ receiver \in ReceiverOf(state)
    /\ outcomes = <<>>

DeliverHandshake ==
    /\ Len(handshake) = 1
    /\ Len(outcomes) < MaxDeliveries
    /\ \E path_ok \in BOOLEAN :
           LET result == process_handshake(receiver, handshake[1], path_ok)
           IN  /\ receiver' = result.state
               /\ outcomes' = Append(outcomes, result.outcome)
    /\ UNCHANGED <<in_num_leaves, in_idx, overflow_checks, call, ret, vec, state, op,
                   handshake, loop_vars>>

NextReceiver ==
    \/ CallFromGroupOp
    \/ DeliverHandshake

SpecReceiver == InitReceiver /\ [][NextReceiver]_vars

----------------------------------------------------------------------------
\* State machine of the loops: node_parent, node_right_child,
\* node_direct_path and node_copath run one loop iteration per action.  The
\* arguments are drawn in InitLoops; a function is entered from "idle", its
\* while loop is tested and its body run at "<function>_while", and it ends
\* in "returned" or, on a failed assert! or an overflow, in "panicked".

InitLoops ==
    /\ in_num_leaves \in 0..MAX_UINT
    /\ in_idx \in 0..MAX_UINT
    /\ overflow_checks \in BOOLEAN
    /\ call = "none"
    /\ ret = 0
    /\ vec = <<>>
    /\ state = IdleState
    /\ op = "Init"
    /\ handshake = <<>>
    /\ LoopsIdle
    /\ ReceiverIdle

\* the two assert! lines every sized relation starts with
ArgsAsserted ==
    /\ in_num_leaves > 0 /\ in_num_leaves <= MAX_LEAVES
    /\ num_nodes_in_tree(in_num_leaves) # Panic
    /\ in_idx < num_nodes_in_tree(in_num_leaves)

EnterNodeParent ==
    /\ pc = "idle"
    /\ call' = "node_parent"
    /\ IF ~ArgsAsserted \/ root_idx(in_num_leaves) = Panic
       THEN pc' = "panicked" /\ ret' = Panic /\ parent_p' = parent_p
       ELSE IF in_idx = root_idx(in_num_leaves)
       THEN pc' = "returned" /\ ret' = in_idx /\ parent_p' = parent_p
       ELSE IF parent_step(in_idx) = Panic
       THEN pc' = "panicked" /\ ret' = Panic /\ parent_p' = parent_p
       ELSE pc' = "node_parent_while" /\ ret' = ret /\ parent_p' = parent_step(in_idx)
    /\ UNCHANGED <<vec, right_r, path_p, path_vec>>
    /\ UNCHANGED <<in_num_leaves, in_idx, overflow_checks, state, op, handshake,
                   receiver_vars>>

\* the body of node_parent's loop stepping from idx again instead of from p
ParentWhileBody_from_idx ==
    /\ pc = "node_parent_while"
    /\ parent_p >= num_nodes_in_tree(in_num_leaves)
    /\ IF parent_step(in_idx) = Panic
       THEN pc' = "panicked" /\ ret' = Panic /\ parent_p' = parent_p
       ELSE pc' = pc /\ ret' = ret /\ parent_p' = parent_step(in_idx)
    /\ UNCHANGED <<call, vec, right_r, path_p, path_vec>>
    /\ UNCHANGED <<in_num_leaves, in_idx, overflow_checks, state, op, handshake,
                   receiver_vars>>

ParentWhileBody ==
    /\ pc = "node_parent_while"
    /\ parent_p >= num_nodes_in_tree(in_num_leaves)
    /\ IF parent_step(parent_p) = Panic
       THEN pc' = "panicked" /\ ret' = Panic /\ parent_p' = parent_p
       ELSE pc' = pc /\ ret' = ret /\ parent_p' = parent_step(parent_p)
    /\ UNCHANGED <<call, vec, right_r, path_p, path_vec>>
    /\ UNCHANGED <<in_num_leaves, in_idx, overflow_checks, state, op, handshake,
                   receiver_vars>>

ParentWhileExit ==
    /\ pc = "node_parent_while"
    /\ ~(parent_p >= num_nodes_in_tree(in_num_leaves))
    /\ pc' = "returned"
    /\ ret' = parent_p
    /\ UNCHANGED <<call, vec, parent_p, right_r, path_p, path_vec>>
    /\ UNCHANGED <<in_num_leaves, in_idx, overflow_checks, state, op, handshake,
                   receiver_vars>>

EnterNodeRightChild ==
    /\ pc = "idle"
    /\ call' = "node_right_child"
    /\ IF ~ArgsAsserted
       THEN pc' = "panicked" /\ ret' = Panic /\ right_r' = right_r
       ELSE IF node_level(in_idx) = 0
       THEN pc' = "returned" /\ ret' = in_idx /\ right_r' = right_r
       ELSE IF BitXor(in_idx, Shl(3, Sub(node_level(in_idx), 1))) = Panic
       THEN pc' = "panicked" /\ ret' = Panic /\ right_r' = right_r
       ELSE /\ pc' = "node_right_child_while"
            /\ ret' = ret
            /\ right_r' = BitXor(in_idx, Shl(3, Sub(node_level(in_idx), 1)))
    /\ UNCHANGED <<vec, parent_p, path_p, path_vec>>
    /\ UNCHANGED <<in_num_leaves, in_idx, overflow_checks, state, op, handshake,
                   receiver_vars>>

\* the body of node_right_child's loop taking the left child of idx
\* instead of the left child of r
RightChildWhileBody_of_idx ==
    /\ pc = "node_right_child_while"
    /\ right_r >= num_nodes_in_tree(in_num_leaves)
    /\ IF node_left_child(in_idx) = Panic
       THEN pc' = "panicked" /\ ret' = Panic /\ right_r' = right_r
       ELSE pc' = pc /\ ret' = ret /\ right_r' = node_left_child(in_idx)
    /\ UNCHANGED <<call, vec, parent_p, path_p, path_vec>>
    /\ UNCHANGED <<in_num_leaves, in_idx, overflow_checks, state, op, handshake,
                   receiver_vars>>

RightChildWhileBody ==
    /\ pc = "node_right_child_while"
    /\ right_r >= num_nodes_in_tree(in_num_leaves)
    /\ IF node_left_child(right_r) = Panic
       THEN pc' = "panicked" /\ ret' = Panic /\ right_r' = right_r
       ELSE pc' = pc /\ ret' = ret /\ right_r' = node_left_child(right_r)
    /\ UNCHANGED <<call, vec, parent_p, path_p, path_vec>>
    /\ UNCHANGED <<in_num_leaves, in_idx, overflow_checks, state, op, handshake,
                   receiver_vars>>

RightChildWhileExit ==
    /\ pc = "node_right_child_while"
    /\ ~(right_r >= num_nodes_in_tree(in_num_leaves))
    /\ pc' = "returned"
    /\ ret' = right_r
    /\ UNCHANGED <<call, vec, parent_p, right_r, path_p, path_vec>>
    /\ UNCHANGED <<in_num_leaves, in_idx, overflow_checks, state, op, handshake,
                   receiver_vars>>

EnterNodeDirectPath ==
    /\ pc = "idle"
    /\ call' = "node_direct_path"
    /\ IF \/ ~ArgsAsserted
          \/ root_idx(in_num_leaves) = Panic
          \/ node_parent(in_idx, in_num_leaves) = Panic
       THEN pc' = "panicked" /\ ret' = Panic /\ vec' = PanicVec
            /\ UNCHANGED <<path_p, path_vec>>
       ELSE /\ pc' = "node_direct_path_while"
            /\ path_vec' = <<>>
            /\ path_p' = node_parent(in_idx, in_num_leaves)
            /\ UNCHANGED <<ret, vec>>
    /\ UNCHANGED <<parent_p, right_r>>
    /\ UNCHANGED <<in_num_leaves, in_idx, overflow_checks, state, op, handshake,
                   receiver_vars>>

DirectPathWhileBody ==
    /\ pc = "node_direct_path_while"
    /\ path_p # root_idx(in_num_leaves)
    /\ IF node_parent(path_p, in_num_leaves) = Panic
       THEN pc' = "panicked" /\ ret' = Panic /\ vec' = PanicVec
            /\ UNCHANGED <<path_p, path_vec>>
       ELSE /\ pc' = pc
            /\ path_vec' = Append(path_vec, path_p)
            /\ path_p' = node_parent(path_p, in_num_leaves)
            /\ UNCHANGED <<ret, vec>>
    /\ UNCHANGED <<call, parent_p, right_r>>
    /\ UNCHANGED <<in_num_leaves, in_idx, overflow_checks, state, op, handshake,
                   receiver_vars>>

DirectPathWhileExit ==
    /\ pc = "node_direct_path_while"
    /\ ~(path_p # root_idx(in_num_leaves))
    /\ pc' = "returned"
    /\ vec' = path_vec
    /\ UNCHANGED <<call, ret, parent_p, right_r, path_p, path_vec>>
    /\ UNCHANGED <<in_num_leaves, in_idx, overflow_checks, state, op, handshake,
                   receiver_vars>>

EnterNodeCopath ==
    /\ pc = "idle"
    /\ call' = "node_copath"
    /\ IF ~ArgsAsserted \/ root_idx(in_num_leaves) = Panic
       THEN pc' = "panicked" /\ ret' = Panic /\ vec' = PanicVec
            /\ UNCHANGED <<path_p, path_vec>>
       ELSE /\ pc' = "node_copath_while"
            /\ path_vec' = <<>>
            /\ path_p' = in_idx
            /\ UNCHANGED <<ret, vec>>
    /\ UNCHANGED <<parent_p, right_r>>
    /\ UNCHANGED <<in_num_leaves, in_idx, overflow_checks, state, op, handshake,
                   receiver_vars>>

CopathWhileBody ==
    /\ pc = "node_copath_while"
    /\ path_p # root_idx(in_num_leaves)
    /\ IF \/ node_sibling(path_p, in_num_leaves) = Panic
          \/ node_parent(path_p, in_num_leaves) = Panic
       THEN pc' = "panicked" /\ ret' = Panic /\ vec' = PanicVec
            /\ UNCHANGED <<path_p, path_vec>>
       ELSE /\ pc' = pc
            /\ path_vec' = Append(path_vec, node_sibling(path_p, in_num_leaves))
            /\ path_p' = node_parent(path_p, in_num_leaves)
            /\ UNCHANGED <<ret, vec>>
    /\ UNCHANGED <<call, parent_p, right_r>>
    /\ UNCHANGED <<in_num_leaves, in_idx, overflow_checks, state, op, handshake,
                   receiver_vars>>

CopathWhileExit ==
    /\ pc = "node_copath_while"
    /\ ~(path_p # root_idx(in_num_leaves))
    /\ pc' = "returned"
    /\ vec' = path_vec
    /\ UNCHANGED <<call, ret, parent_p, right_r, path_p, path_vec>>
    /\ UNCHANGED <<in_num_leaves, in_idx, overflow_checks, state, op, handshake,
                   receiver_vars>>

NextLoops ==
    \/ EnterNodeParent
    \/ ParentWhileBody
    \/ ParentWhileExit
    \/ EnterNodeRightChild
    \/ RightChildWhileBody
    \/ RightChildWhileExit
    \/ EnterNodeDirectPath
    \/ DirectPathWhileBody
    \/ DirectPathWhileExit
    \/ EnterNodeCopath
    \/ CopathWhileBody
    \/ CopathWhileExit

SpecLoops == InitLoops /\ [][NextLoops]_vars

\* The code is single-threaded and synchronous: a loop that has an
\* iteration or its exit to take takes it.
SpecLoopsFair ==
    /\ SpecLoops
    /\ WF_vars(ParentWhileBody) /\ WF_vars(ParentWhileExit)
    /\ WF_vars(RightChildWhileBody) /\ WF_vars(RightChildWhileExit)

----------------------------------------------------------------------------
\* Properties of the tree math

\* in_num_leaves is a valid leaf count and in_idx a node of that tree
ValidLeaves == in_num_leaves >= 1 /\ in_num_leaves <= 2^(W - 1)
ValidArgs == ValidLeaves /\ in_idx < 2 * in_num_leaves - 1

\* C1: for every valid leaf count n and node i < num_nodes(n), the sibling
\* returned by node_sibling(i, n) has the same parent as i.
C1_SiblingSameParent ==
    (call = "node_sibling" /\ ValidArgs) =>
        /\ ret # Panic
        /\ node_parent(in_idx, in_num_leaves) # Panic
        /\ node_parent(ret, in_num_leaves) = node_parent(in_idx, in_num_leaves)

\* a right child found by walking left in the non-full tree of 5 leaves asks
\* for its sibling
C1_Witness ==
    /\ call = "node_sibling" /\ in_num_leaves = 5 /\ in_idx = 8 /\ ret = 3
    /\ node_parent(ret, in_num_leaves) = 7

\* C2: for every valid n and node i < num_nodes(n) of level > 0, the left
\* child and the right child returned by node_right_child(i, n) are nodes of
\* the tree and both have i as their parent.
C2_ChildrenHaveParent ==
    (call = "node_right_child" /\ ValidArgs /\ node_level(in_idx) > 0) =>
        /\ ret # Panic
        /\ ret < 2 * in_num_leaves - 1
        /\ node_parent(ret, in_num_leaves) = in_idx
        /\ node_left_child(in_idx) < 2 * in_num_leaves - 1
        /\ node_parent(node_left_child(in_idx), in_num_leaves) = in_idx

\* the root of the 5-leaf tree: the conjectured right child 11 is outside
\* the tree and the walk to the left ends at 8
C2_Witness ==
    /\ call = "node_right_child" /\ in_num_leaves = 5 /\ in_idx = 7 /\ ret = 8
    /\ BitXor(in_idx, Shl(3, node_level(in_idx) - 1)) >= 2 * in_num_leaves - 1

\* C3: for every valid n and node i < num_nodes(n) other than the root, with
\* p = node_parent(i, n), exactly one of node_left_child(p) = i and
\* node_right_child(p, n) = i holds.
C3_ExactlyOneChild ==
    (call = "node_parent" /\ ValidArgs /\ in_idx # root_idx(in_num_leaves)) =>
        /\ ret # Panic
        /\ node_right_child(ret, in_num_leaves) # Panic
        /\ (node_left_child(ret) = in_idx) # (node_right_child(ret, in_num_leaves) = in_idx)

\* the last leaf of the 5-leaf tree, whose parent is found by the loop
C3_Witness ==
    /\ call = "node_parent" /\ in_num_leaves = 5 /\ in_idx = 8 /\ ret = 7
    /\ node_right_child(ret, in_num_leaves) = in_idx
    /\ node_left_child(ret) # in_idx

\* the levels along the Vec returned last increase strictly
LevelsIncrease ==
    \A k \in 1..(Len(vec) - 1) : node_level(vec[k]) < node_level(vec[k + 1])

\* the parent of every element of the Vec but the last is the next element
ParentIsNext ==
    \A k \in 1..(Len(vec) - 1) : node_parent(vec[k], in_num_leaves) = vec[k + 1]

\* C4 as stated: node_direct_path(i, n) is strictly increasing in level, its
\* last element has level node_level(root_idx(n)) - 1, and the parent of
\* every element but the last is the next element.
C4_DirectPathEndsOneLevelBelowRoot ==
    (call = "node_direct_path" /\ ValidArgs) =>
        /\ vec # PanicVec
        /\ LevelsIncrease
        /\ ParentIsNext
        /\ Len(vec) > 0 =>
               node_level(vec[Len(vec)]) = node_level(root_idx(in_num_leaves)) - 1

\* C4 amended: node_direct_path(i, n) is strictly increasing in level, the
\* parent of every element but the last is the next element, and the last
\* element is a child of the root: its parent is root_idx(n), its level is at
\* most node_level(root_idx(n)) - 1, and exactly that when it is the left
\* child of the root.
C4_DirectPathEndsAtChildOfRoot ==
    (call = "node_direct_path" /\ ValidArgs) =>
        /\ vec # PanicVec
        /\ LevelsIncrease
        /\ ParentIsNext
        /\ Len(vec) > 0 =>
               LET last == vec[Len(vec)]
                   root == root_idx(in_num_leaves)
               IN  /\ last # root
                   /\ node_parent(last, in_num_leaves) = root
                   /\ node_level(last) <= node_level(root) - 1
                   /\ last < root => node_level(last) = node_level(root) - 1

\* leaf 8 of the 6-leaf tree: its direct path is [9], a right child of the
\* root 7 that sits two levels below it
C4_Witness ==
    /\ call = "node_direct_path" /\ in_num_leaves = 6 /\ in_idx = 8 /\ vec = <<9>>
    /\ node_level(9) = 1 /\ node_level(root_idx(in_num_leaves)) = 3

\* C5: for every valid n and node i < num_nodes(n), node_copath(i, n) is one
\* longer than node_direct_path(i, n) when i is not the root, and both are
\* empty when i is the root.
C5_CopathOneLonger ==
    (call = "node_copath" /\ ValidArgs) =>
        /\ vec # PanicVec
        /\ node_direct_path(in_idx, in_num_leaves) # PanicVec
        /\ IF in_idx # root_idx(in_num_leaves)
           THEN Len(vec) = Len(node_direct_path(in_idx, in_num_leaves)) + 1
           ELSE vec = <<>> /\ node_direct_path(in_idx, in_num_leaves) = <<>>

\* leaf 0 of the 5-leaf tree: copath [2, 5, 8] against direct path [1, 3]
C5_Witness ==
    /\ call = "node_copath" /\ in_num_leaves = 5 /\ in_idx = 0 /\ vec = <<2, 5, 8>>
    /\ node_direct_path(in_idx, in_num_leaves) = <<1, 3>>

\* The leaf counts of the subtrees a frontier names: entry k is the root of
\* a full subtree of s leaves at offset base when it is base + s - 1, and
\* the next offset is base + 2 * s.
RECURSIVE FrontierSizes(_, _, _)
FrontierSizes(f, k, base) ==
    IF k > Len(f) THEN <<>>
    ELSE LET s == f[k] - base + 1
         IN  <<s>> \o FrontierSizes(f, k + 1, base + 2 * s)

RECURSIVE SeqSum(_)
SeqSum(q) == IF q = <<>> THEN 0 ELSE Head(q) + SeqSum(Tail(q))

IsPowerOfTwo(s) == \E j \in 0..(W - 1) : s = 2^j

\* C6: for every valid n, tree_frontier(n) returns the roots of full
\* subtrees whose leaf counts are distinct powers of two, strictly
\* descending, summing to n, each root at the running offset and below
\* num_nodes(n).
C6_FrontierCoversLeaves ==
    (call = "tree_frontier" /\ ValidLeaves) =>
        /\ vec # PanicVec
        /\ LET sizes == FrontierSizes(vec, 1, 0)
           IN  /\ \A k \in 1..Len(vec) :
                      IsPowerOfTwo(sizes[k]) /\ vec[k] < 2 * in_num_leaves - 1
               /\ \A k \in 1..(Len(vec) - 1) : sizes[k] > sizes[k + 1]
               /\ SeqSum(sizes) = in_num_leaves

OutOfRange ==
    \/ in_num_leaves = 0
    \/ ValidLeaves /\ in_idx >= 2 * in_num_leaves - 1

\* C8 as stated: parent, left child, right child, sibling, direct_path and
\* copath all panic when called with n = 0 or an index outside
\* [0, num_nodes(n)).
C8_AllRelationsFailLoudly ==
    (/\ call \in {"node_parent", "node_left_child", "node_right_child",
                  "node_sibling", "node_direct_path", "node_copath"}
     /\ OutOfRange) => ret = Panic

\* C8 amended: parent, right child, sibling, direct_path and copath panic
\* when called with n = 0 or an index outside [0, num_nodes(n));
\* node_left_child takes no leaf count, checks nothing and returns an index
\* for every idx.
C8_SizedRelationsFailLoudly ==
    /\ (/\ call \in {"node_parent", "node_right_child", "node_sibling",
                     "node_direct_path", "node_copath"}
        /\ OutOfRange) => ret = Panic
    /\ call = "node_left_child" => ret \in 0..MAX_UINT

\* the right child of index 10, a leaf index past the 5-leaf tree
C8_Witness ==
    /\ call = "node_right_child" /\ in_num_leaves = 5 /\ in_idx = 10
    /\ OutOfRange /\ ret = Panic

Max(a, b) == IF a >= b THEN a ELSE b

\* C9: for every valid n and node i < num_nodes(n), node_level(i) = 0 iff i
\* is even, and for odd i node_level(i) is one more than the larger of the
\* levels of its left and right child.
C9_LevelIsStructural ==
    (call = "node_level" /\ ValidArgs) =>
        /\ ret = 0 <=> in_idx % 2 = 0
        /\ in_idx % 2 = 1 =>
               /\ node_right_child(in_idx, in_num_leaves) # Panic
               /\ ret = 1 + Max(node_level(node_left_child(in_idx)),
                                node_level(node_right_child(in_idx, in_num_leaves)))

\* the root of the 6-leaf tree: level 3 over children 3 (level 2) and 9
\* (level 1)
C9_Witness ==
    /\ call = "node_level" /\ in_num_leaves = 6 /\ in_idx = 7 /\ ret = 3
    /\ node_level(node_left_child(in_idx)) = 2
    /\ node_level(node_right_child(in_idx, in_num_leaves)) = 1

----------------------------------------------------------------------------
\* Properties of the handshake

\* C10: from_group_op(state, op) returns a Handshake with prior_epoch =
\* state.epoch, signer_index = state.my_position_in_roster, operation = op,
\* signature = Sign(identity_key, transcript_hash) and confirmation =
\* HMAC(confirmation_key, transcript_hash || signature bytes), all read from
\* the state before the call, and leaves the state as it was.
C10_FromGroupOp ==
    [][(call = "none" /\ call' = "from_group_op") =>
           /\ Len(handshake') = 1
           /\ handshake'[1].prior_epoch = state.epoch
           /\ handshake'[1].signer_index = state.my_position_in_roster
           /\ handshake'[1].operation = op
           /\ handshake'[1].signature =
                  sign(state.identity_key, state.transcript_hash)
           /\ handshake'[1].confirmation =
                  hmac_sign(state.confirmation_key,
                            state.transcript_hash
                                \o signature_to_bytes(handshake'[1].signature))
           /\ state' = state]_vars

\* a Remove built at epoch 2 by the member at roster position 1
C10_Witness ==
    /\ call = "from_group_op" /\ Len(handshake) = 1
    /\ state.epoch = 2 /\ state.my_position_in_roster = 1 /\ op = "Remove"
    /\ state.transcript_hash = <<0, 1>>
    /\ handshake[1].prior_epoch = 2 /\ handshake[1].operation = "Remove"
    /\ handshake[1].signature.signed = <<0, 1>>

\* C11: a delivery to a receiver whose epoch differs from the Handshake's
\* prior_epoch is rejected; a delivery after the Handshake was accepted
\* (replay) is rejected; and every rejected delivery leaves the receiver's
\* Group State as it was before the call.
C11_EpochMismatchRejected ==
    [][Len(outcomes') > Len(outcomes) =>
           LET outcome == outcomes'[Len(outcomes')]
           IN  /\ receiver.epoch # handshake[1].prior_epoch =>
                      outcome = "ProtocolMismatch"
               /\ (\E k \in 1..Len(outcomes) : outcomes[k] = "Accepted") =>
                      outcome = "ProtocolMismatch"
               /\ outcome # "Accepted" => receiver' = receiver]_vars

\* the Handshake was accepted at epoch 1 and rejected when delivered again
C11_Witness ==
    /\ outcomes = <<"Accepted", "ProtocolMismatch">>
    /\ handshake[1].prior_epoch = 1
    /\ receiver.epoch = 2

----------------------------------------------------------------------------
\* Properties of the loops

\* C12: for every valid n and non-root node i, every parent_step of
\* node_parent (the first one and each one in the loop) strictly increases
\* node_level, the loop ends, and it ends at a node p < num_nodes(n) with
\* node_level(p) > node_level(i).  The loops of node_direct_path and
\* node_copath iterate node_parent: every iteration moves to a node of the
\* tree of strictly higher level, no higher than the root's, and the only
\* way out of the loop is the return at the root, so they end as well.
C12_ParentLoopTerminates ==
    /\ [][pc' = "node_parent_while" =>
              node_level(parent_p') >
                  node_level(IF pc = "idle" THEN in_idx ELSE parent_p)]_vars
    /\ [][(pc = "node_parent_while" /\ pc' # pc) =>
              /\ pc' = "returned"
              /\ ret' < 2 * in_num_leaves - 1
              /\ node_level(ret') > node_level(in_idx)]_vars
    /\ (pc = "node_parent_while") ~> (pc = "returned")
    /\ [][(pc \in {"node_direct_path_while", "node_copath_while"} /\ pc' = pc) =>
              /\ node_level(path_p') > node_level(path_p)
              /\ node_level(path_p') <= node_level(root_idx(in_num_leaves))
              /\ path_p' < 2 * in_num_leaves - 1]_vars
    /\ [][(pc \in {"node_direct_path_while", "node_copath_while"} /\ pc' # pc) =>
              /\ pc' = "returned"
              /\ path_p = root_idx(in_num_leaves)]_vars

\* the last leaf of the 5-leaf tree: parent_step gives 9, the loop goes on
\* to 11 and to 7, the root, and returns it
C12_Witness ==
    /\ pc = "returned" /\ call = "node_parent" /\ in_num_leaves = 5 /\ in_idx = 8
    /\ parent_step(in_idx) = 9 /\ parent_step(9) = 11
    /\ parent_p = 7 /\ ret = 7

\* C13: for every valid n and node i < num_nodes(n) of level > 0, the
\* move-left loop of node_right_child never stands on a leaf at or past
\* num_nodes(n), it ends, and it returns r with i < r < num_nodes(n), while
\* node_left_child(i) < i.
C13_RightChildLoopTerminates ==
    /\ [](pc = "node_right_child_while"
              /\ right_r >= num_nodes_in_tree(in_num_leaves)
          => node_level(right_r) > 0)
    /\ (pc = "node_right_child_while") ~> (pc = "returned")
    /\ []((pc = "returned" /\ call = "node_right_child" /\ node_level(in_idx) > 0)
          => /\ in_idx < ret
             /\ ret < 2 * in_num_leaves - 1
             /\ node_left_child(in_idx) < in_idx)

\* the root of the 5-leaf tree: the conjectured 11 is past the tree, the
\* loop moves left to 9 and to 8 and returns it
C13_Witness ==
    /\ pc = "returned" /\ call = "node_right_child" /\ in_num_leaves = 5 /\ in_idx = 7
    /\ BitXor(in_idx, Shl(3, node_level(in_idx) - 1)) = 11
    /\ node_left_child(11) = 9
    /\ right_r = 8 /\ ret = 8

\* the exact offset after the last subtree of a frontier: each subtree of s
\* leaves advances the offset by num_nodes(s) + 1 = 2 * s
FrontierFinalBase(f) == 2 * SeqSum(FrontierSizes(f, 1, 0))

\* C14: for every n in 1..MAX_LEAVES, tree_frontier(n) returns (no panic)
\* and its running offset never exceeds MAX_UINT, so that no W-bit addition
\* overflows in either build.
C14_FrontierNoOverflow ==
    (call = "tree_frontier" /\ ValidLeaves) =>
        /\ vec # PanicVec
        /\ FrontierFinalBase(vec) <= MAX_UINT

====
